---- MODULE Spec2Model ----
(***************************************************************************)
(* Model of martin-webb/onebrc (src/main.go): determineRanges, task, run   *)
(* and writeOutput.                                                         *)
(*                                                                         *)
(* Bytes are one-element strings; the newline byte is written "LF".  A      *)
(* file is a sequence of bytes whose Go offset o is the TLA+ index o + 1.   *)
(* A float32 is the integer number of units of 2^-23 it holds, which is     *)
(* exact for 0 and for every float32 in [1, 256); sums and parsed values    *)
(* are rounded to 24 significant bits, to nearest, ties to even, as IEEE    *)
(* 754 single precision does.  Goroutine i of run (Go index i) is task      *)
(* i + 1 here, and ranges[i] is ranges[i + 1].                              *)
(***************************************************************************)
EXTENDS Integers, Sequences, FiniteSets, TLC

\* ---------------------------------------------------------------- bounds
MaxLen == 5          \* longest file of SpecRanges, in bytes
MaxParallel == 3     \* largest worker count tried
MaxRecords == 3      \* most records in a file of Spec
MaxUnderflow == 8    \* the backward scan is followed down to End = -MaxUnderflow
MaxIOFailures == 1   \* most injected open/read failures in one run
MaxRecordsOutput == 4 \* most records in a file of SpecOutput
MaxStations == 3     \* longest station list handed to writeOutput directly

\* ------------------------------------------------------------- constants
StationDelimeter == ";"
MeasurementDelimeter == "LF"
F32Unit == 8388608       \* 2^23 units make 1.0
F32Mantissa == 16777216  \* 2^24: a float32 significand has 24 bits
MeanScale == 16          \* a mean is held in units of 2^-27

Min2(x, y) == IF x <= y THEN x ELSE y
Max2(x, y) == IF x >= y THEN x ELSE y

\* ------------------------------------------------------------ float32
RECURSIVE Ulp(_, _, _)
\* the power of two u >= 1 with p / q < F32Mantissa * u, least such
Ulp(p, q, u) == IF p \div q < F32Mantissa * u THEN u ELSE Ulp(p, q, 2 * u)

\* a / d rounded to the nearest integer, ties to the even one (a >= 0, d > 0)
RoundHalfEven(a, d) ==
    LET f == a \div d
        r == a % d
    IN  IF 2 * r > d \/ (2 * r = d /\ f % 2 = 1) THEN f + 1 ELSE f

\* p / q (p >= 0, q > 0) rounded to 24 significant bits
RoundRat24(p, q) ==
    LET u == Ulp(p, q, 1) IN u * RoundHalfEven(p, q * u)

F32Add(x, y) == RoundRat24(x + y, 1)

\* v.Sum / float32(v.Count), in units of 2^-27
F32Mean(sum, count) == RoundRat24(MeanScale * sum, count)

\* fmt's %.1f of a float32 holding a / unit: the number of tenths printed
Tenths(a, unit) ==
    10 * (a \div unit) + RoundHalfEven(10 * (a % unit), unit)

Digit(c) == CASE c = "0" -> 0 [] c = "1" -> 1 [] c = "2" -> 2 [] c = "3" -> 3
              [] c = "4" -> 4 [] c = "5" -> 5 [] c = "6" -> 6 [] c = "7" -> 7
              [] c = "8" -> 8 [] c = "9" -> 9 [] OTHER -> -1

\* strconv.ParseFloat(s, 32) on the value strings of this model: a decimal
\* "d.d" is converted to the nearest float32, anything else is a syntax
\* error, for which ParseFloat returns 0 and an error.
ParseFloat(s) ==
    IF Len(s) = 3 /\ Digit(s[1]) >= 1 /\ s[2] = "." /\ Digit(s[3]) >= 0
    THEN [val |-> RoundRat24((10 * Digit(s[1]) + Digit(s[3])) * F32Unit, 10),
          err |-> FALSE]
    ELSE [val |-> 0, err |-> TRUE]

\* ------------------------------------------------------------ the state
VARIABLES
    file,       \* the bytes of the measurements file
    parallel,   \* the worker count
    ioFailures, \* open/read failures injected so far
    drPc,       \* position in determineRanges
    ranges,     \* determineRanges: ranges
    middle,     \* determineRanges: the range being adjusted in the Middle loop
    b,          \* determineRanges: the one-byte buffer b
    fpos,       \* determineRanges: offset of the open file f
    i,          \* determineRanges: index of the Middle loop
    runPc,      \* position in run
    spawned,    \* run: goroutines started so far
    sent,       \* every AggregationResult sent on aggregatorChannel, in order
    recvN,      \* run: results received; the channel holds sent[recvN+1..]
    closed,     \* aggregatorChannel is closed
    wg,         \* the WaitGroup counter
    readings,   \* run: the merged mapping
    runErr,     \* the error run returns: "nil", "ranges" or "task"
    output,     \* the string run returns, <<>> for ""
    stations,   \* run: the sorted station list handed to writeOutput
    crashed,    \* a goroutine panicked: the process is gone
    tPc,        \* task: position of each task
    tOpen,      \* task: os.OpenFile succeeded
    tLine,      \* task: records scanned so far
    tReadings,  \* task: the local mapping readings
    tParseFailed, \* history: the task has hit a value that failed to parse
    tIOFailed   \* history: "none", or the I/O failure the task has met

drVars == <<drPc, ranges, middle, b, fpos, i>>
runVars == <<runPc, spawned, recvN, closed, wg, readings, runErr, output, stations>>
taskVars == <<tPc, tOpen, tLine, tReadings, tParseFailed, tIOFailed>>
vars == <<file, parallel, ioFailures, drPc, ranges, middle, b, fpos, i,
          runPc, spawned, sent, recvN, closed, wg, readings, runErr, output, stations,
          crashed, tPc, tOpen, tLine, tReadings, tParseFailed, tIOFailed>>
rest == <<runPc, spawned, sent, recvN, closed, wg, readings, runErr, output, stations,
          crashed, tPc, tOpen, tLine, tReadings, tParseFailed, tIOFailed>>

length == Len(file)
\* the quotient rounded up instead of down
approxSize_RoundedUp == (length + parallel - 1) \div parallel

approxSize == length \div parallel
NoRange == [Begin |-> 0, End |-> 0]

\* f.Seek(off, 0) followed by f.Read(b), both results ignored: a negative
\* offset leaves the file position where it was, a read at end-of-file
\* leaves b as it was.
SeekPos(off) == IF off >= 0 THEN off ELSE fpos
ReadByte(off) == IF SeekPos(off) < length THEN file[SeekPos(off) + 1] ELSE b
ReadPos(off) == IF SeekPos(off) < length THEN SeekPos(off) + 1 ELSE SeekPos(off)

DRInit ==
    /\ drPc = "open"
    /\ ranges = <<>>
    /\ middle = NoRange
    /\ b = "NUL"
    /\ fpos = 0
    /\ i = 0

Tasks == 1..parallel
EmptyMap == <<>>

RunInit ==
    /\ runPc = "ranges"
    /\ spawned = 0
    /\ sent = <<>>
    /\ recvN = 0
    /\ closed = FALSE
    /\ wg = 0
    /\ readings = EmptyMap
    /\ runErr = "nil"
    /\ output = <<>>
    /\ stations = <<>>
    /\ crashed = FALSE
    /\ tPc = [t \in Tasks |-> "idle"]
    /\ tOpen = [t \in Tasks |-> FALSE]
    /\ tLine = [t \in Tasks |-> 0]
    /\ tReadings = [t \in Tasks |-> EmptyMap]
    /\ tParseFailed = [t \in Tasks |-> FALSE]
    /\ tIOFailed = [t \in Tasks |-> "none"]

\* os.OpenFile or f.Seek(0, 2) fails
DROpenFail ==
    /\ drPc = "open"
    /\ ioFailures < MaxIOFailures
    /\ ioFailures' = ioFailures + 1
    /\ drPc' = "err"
    /\ ranges' = <<>>
    /\ fpos' = 0
    /\ UNCHANGED <<file, parallel, middle, b, i>>
    /\ UNCHANGED rest

\* n == 1
DRSingle ==
    /\ drPc = "open"
    /\ parallel = 1
    /\ ranges' = <<[Begin |-> 0, End |-> length]>>
    /\ fpos' = length
    /\ drPc' = "ok"
    /\ UNCHANGED <<file, parallel, ioFailures, middle, b, i>>
    /\ UNCHANGED rest

\* approxSize == 0
DRTooMany ==
    /\ drPc = "open"
    /\ parallel # 1
    /\ approxSize = 0
    /\ ranges' = <<>>
    /\ fpos' = length
    /\ drPc' = "err"
    /\ UNCHANGED <<file, parallel, ioFailures, middle, b, i>>
    /\ UNCHANGED rest

\* First
DRFirst ==
    /\ drPc = "open"
    /\ parallel # 1
    /\ approxSize # 0
    /\ ranges' = <<[Begin |-> 0, End |-> approxSize]>>
    /\ fpos' = length
    /\ drPc' = "first"
    /\ UNCHANGED <<file, parallel, ioFailures, middle, b, i>>
    /\ UNCHANGED rest

\* one iteration of the first "Adjust end" loop
DRAdjustFirst ==
    /\ drPc = "first"
    /\ ranges[1].End > -MaxUnderflow
    /\ LET end == ranges[1].End
           byte == ReadByte(end)
       IN  /\ b' = byte
           /\ fpos' = ReadPos(end)
           /\ IF byte = MeasurementDelimeter
              THEN /\ ranges' = [ranges EXCEPT ![1].End = end + 1]
                   /\ drPc' = "check"
              ELSE /\ ranges' = [ranges EXCEPT ![1].End = end - 1]
                   /\ drPc' = "first"
    /\ UNCHANGED <<file, parallel, ioFailures, middle, i>>
    /\ UNCHANGED rest

\* the End < 0 test left out: the first range is accepted as it is
DRCheck_Never ==
    /\ drPc = "check"
    /\ ranges' = ranges
    /\ drPc' = "middle"
    /\ i' = 1
    /\ UNCHANGED <<file, parallel, ioFailures, middle, b, fpos>>
    /\ UNCHANGED rest

\* ranges[len(ranges)-1].End < 0
DRCheck ==
    /\ drPc = "check"
    /\ IF ranges[Len(ranges)].End < 0
       THEN /\ ranges' = <<>>
            /\ drPc' = "err"
            /\ i' = i
       ELSE /\ ranges' = ranges
            /\ drPc' = "middle"
            /\ i' = 1
    /\ UNCHANGED <<file, parallel, ioFailures, middle, b, fpos>>
    /\ UNCHANGED rest

\* Middle: a new range begins where the previous one ends
DRMiddle ==
    /\ drPc = "middle"
    /\ i < parallel - 1
    /\ middle' = [Begin |-> ranges[i].End, End |-> ranges[i].End + approxSize]
    /\ drPc' = "adjust"
    /\ UNCHANGED <<file, parallel, ioFailures, ranges, b, fpos, i>>
    /\ UNCHANGED rest

\* one iteration of the Middle "Adjust end" loop
DRAdjustMiddle ==
    /\ drPc = "adjust"
    /\ middle.End > -MaxUnderflow
    /\ LET end == middle.End
           byte == ReadByte(end)
       IN  /\ b' = byte
           /\ fpos' = ReadPos(end)
           /\ IF byte = MeasurementDelimeter
              THEN /\ middle' = [middle EXCEPT !.End = end + 1]
                   /\ ranges' = Append(ranges, [middle EXCEPT !.End = end + 1])
                   /\ i' = i + 1
                   /\ drPc' = "middle"
              ELSE /\ middle' = [middle EXCEPT !.End = end - 1]
                   /\ ranges' = ranges
                   /\ i' = i
                   /\ drPc' = "adjust"
    /\ UNCHANGED <<file, parallel, ioFailures>>
    /\ UNCHANGED rest

\* Last
DRLast ==
    /\ drPc = "middle"
    /\ i >= parallel - 1
    /\ ranges' = Append(ranges, [Begin |-> ranges[Len(ranges)].End, End |-> length])
    /\ drPc' = "ok"
    /\ UNCHANGED <<file, parallel, ioFailures, middle, b, fpos, i>>
    /\ UNCHANGED rest

determineRanges ==
    \/ DROpenFail
    \/ DRSingle
    \/ DRTooMany
    \/ DRFirst
    \/ DRAdjustFirst
    \/ DRCheck
    \/ DRMiddle
    \/ DRAdjustMiddle
    \/ DRLast

\* --------------------------------------------------------------- task
\* io.NewSectionReader(f, r.Begin, r.End-r.Begin): a negative size overflows
\* the limit computation and the section then runs to the end of the file
SectionLimit(r) == IF r.End - r.Begin < 0 THEN length ELSE Min2(r.End, length)

\* the bytes the section reader of range r delivers
Chunk(r) == SubSeq(file, r.Begin + 1, SectionLimit(r))

\* offset of the first byte c of s, counted from 1; 0 if there is none
IndexOf(s, c) ==
    IF \E k \in 1..Len(s) : s[k] = c
    THEN CHOOSE k \in 1..Len(s) : s[k] = c /\ \A j \in 1..(k - 1) : s[j] # c
    ELSE 0

RECURSIVE ScanLines(_)
\* the tokens bufio.Scanner yields with its default split function: the
\* lines without their delimiter, and a last unterminated line if not empty
ScanLines(s) ==
    IF s = <<>> THEN <<>>
    ELSE LET k == IndexOf(s, MeasurementDelimeter)
         IN  IF k = 0 THEN <<s>>
             ELSE <<SubSeq(s, 1, k - 1)>> \o ScanLines(SubSeq(s, k + 1, Len(s)))

Records(t) == ScanLines(Chunk(ranges[t]))
Buffer(t) == Records(t)[tLine[t] + 1]
Station(buffer) == SubSeq(buffer, 1, IndexOf(buffer, StationDelimeter) - 1)
MeasurementStr(buffer) ==
    SubSeq(buffer, IndexOf(buffer, StationDelimeter) + 1, Len(buffer))

\* lines 191-205: fold one measurement into a task's readings
Accumulate(m, station, m32) ==
    IF station \in DOMAIN m
    THEN [m EXCEPT ![station] = [Sum |-> F32Add(@.Sum, m32),
                                 Min |-> Min2(@.Min, m32),
                                 Max |-> Max2(@.Max, m32),
                                 Count |-> @.Count + 1]]
    ELSE [k \in DOMAIN m \cup {station} |->
            IF k = station
            THEN [Sum |-> m32, Min |-> m32, Max |-> m32, Count |-> 1]
            ELSE m[k]]

Alive == ~crashed
ChanLen == Len(sent) - recvN
AggregationResult(t, e, m) == [task |-> t, Error |-> e, Measurements |-> m]

\* aggregationResultChannel <- result: blocks while the buffer is full
CanSend == closed \/ ChanLen < parallel

\* os.OpenFile succeeds
TaskOpen(t) ==
    /\ Alive
    /\ tPc[t] = "open"
    /\ tOpen' = [tOpen EXCEPT ![t] = TRUE]
    /\ tPc' = [tPc EXCEPT ![t] = "scan"]
    /\ UNCHANGED <<file, parallel, ioFailures, drVars, runVars, sent, crashed,
                   tLine, tReadings, tParseFailed, tIOFailed>>

\* os.OpenFile fails: the error result is built and is about to be sent
TaskOpenFail(t) ==
    /\ Alive
    /\ tPc[t] = "open"
    /\ ioFailures < MaxIOFailures
    /\ ioFailures' = ioFailures + 1
    /\ tIOFailed' = [tIOFailed EXCEPT ![t] = "open"]
    /\ tPc' = [tPc EXCEPT ![t] = "sendOpenErr"]
    /\ UNCHANGED <<file, parallel, drVars, runVars, sent, crashed,
                   tOpen, tLine, tReadings, tParseFailed>>

\* line 162: the send of the open error; the task then goes on to the scan
TaskSendOpenErr(t) ==
    /\ Alive
    /\ tPc[t] = "sendOpenErr"
    /\ CanSend
    /\ IF closed
       THEN /\ crashed' = TRUE
            /\ sent' = sent
            /\ tPc' = [tPc EXCEPT ![t] = "panic"]
       ELSE /\ crashed' = crashed
            /\ sent' = Append(sent, AggregationResult(t, "open", EmptyMap))
            /\ tPc' = [tPc EXCEPT ![t] = "scan"]
    /\ UNCHANGED <<file, parallel, ioFailures, drVars, runVars,
                   tOpen, tLine, tReadings, tParseFailed, tIOFailed>>

\* scanner.Scan() returns false: no record is left, or f is nil
TaskScanEnd(t) ==
    /\ Alive
    /\ tPc[t] = "scan"
    /\ (~tOpen[t] \/ tLine[t] = Len(Records(t)))
    /\ tPc' = [tPc EXCEPT ![t] = "send"]
    /\ UNCHANGED <<file, parallel, ioFailures, drVars, runVars, sent, crashed,
                   tOpen, tLine, tReadings, tParseFailed, tIOFailed>>

\* scanner.Scan() returns false because a read failed; scanner.Err() is
\* never looked at
TaskReadFail(t) ==
    /\ Alive
    /\ tPc[t] = "scan"
    /\ tOpen[t]
    /\ ioFailures < MaxIOFailures
    /\ ioFailures' = ioFailures + 1
    /\ tIOFailed' = [tIOFailed EXCEPT ![t] = "read"]
    /\ tPc' = [tPc EXCEPT ![t] = "send"]
    /\ UNCHANGED <<file, parallel, drVars, runVars, sent, crashed,
                   tOpen, tLine, tReadings, tParseFailed>>

\* lines 173-178: the record holds no station delimiter and the index runs
\* off the buffer
TaskPanic(t) ==
    /\ Alive
    /\ tPc[t] = "scan"
    /\ tOpen[t]
    /\ tLine[t] < Len(Records(t))
    /\ IndexOf(Buffer(t), StationDelimeter) = 0
    /\ crashed' = TRUE
    /\ tPc' = [tPc EXCEPT ![t] = "panic"]
    /\ UNCHANGED <<file, parallel, ioFailures, drVars, runVars, sent,
                   tOpen, tLine, tReadings, tParseFailed, tIOFailed>>

\* one record whose value parses
TaskRecord(t) ==
    /\ Alive
    /\ tPc[t] = "scan"
    /\ tOpen[t]
    /\ tLine[t] < Len(Records(t))
    /\ IndexOf(Buffer(t), StationDelimeter) # 0
    /\ ~ParseFloat(MeasurementStr(Buffer(t))).err
    /\ tReadings' = [tReadings EXCEPT ![t] =
          Accumulate(@, Station(Buffer(t)), ParseFloat(MeasurementStr(Buffer(t))).val)]
    /\ tLine' = [tLine EXCEPT ![t] = @ + 1]
    /\ UNCHANGED <<file, parallel, ioFailures, drVars, runVars, sent, crashed,
                   tPc, tOpen, tParseFailed, tIOFailed>>

\* lines 183-185: the value does not parse; the error result is built
TaskParseFail(t) ==
    /\ Alive
    /\ tPc[t] = "scan"
    /\ tOpen[t]
    /\ tLine[t] < Len(Records(t))
    /\ IndexOf(Buffer(t), StationDelimeter) # 0
    /\ ParseFloat(MeasurementStr(Buffer(t))).err
    /\ tParseFailed' = [tParseFailed EXCEPT ![t] = TRUE]
    /\ tPc' = [tPc EXCEPT ![t] = "sendParseErr"]
    /\ UNCHANGED <<file, parallel, ioFailures, drVars, runVars, sent, crashed,
                   tOpen, tLine, tReadings, tIOFailed>>

\* lines 186-205: the send of the parse error, after which the loop body
\* goes on with the value ParseFloat returned beside the error
TaskSendParseErr(t) ==
    /\ Alive
    /\ tPc[t] = "sendParseErr"
    /\ CanSend
    /\ IF closed
       THEN /\ crashed' = TRUE
            /\ sent' = sent
            /\ tPc' = [tPc EXCEPT ![t] = "panic"]
            /\ UNCHANGED <<tReadings, tLine>>
       ELSE /\ crashed' = crashed
            /\ sent' = Append(sent, AggregationResult(t, "parse", EmptyMap))
            /\ tPc' = [tPc EXCEPT ![t] = "scan"]
            /\ tReadings' = [tReadings EXCEPT ![t] =
                  Accumulate(@, Station(Buffer(t)),
                             ParseFloat(MeasurementStr(Buffer(t))).val)]
            /\ tLine' = [tLine EXCEPT ![t] = @ + 1]
    /\ UNCHANGED <<file, parallel, ioFailures, drVars, runVars,
                   tOpen, tParseFailed, tIOFailed>>

\* lines 209-212: the task's readings are sent as its result
TaskSend(t) ==
    /\ Alive
    /\ tPc[t] = "send"
    /\ CanSend
    /\ IF closed
       THEN /\ crashed' = TRUE
            /\ sent' = sent
            /\ tPc' = [tPc EXCEPT ![t] = "panic"]
            /\ wg' = wg
       ELSE /\ crashed' = crashed
            /\ sent' = Append(sent, AggregationResult(t, "nil", tReadings[t]))
            /\ tPc' = [tPc EXCEPT ![t] = "exit"]
            /\ wg' = wg
    /\ UNCHANGED <<file, parallel, ioFailures, drVars, runPc, spawned, recvN,
                   closed, readings, runErr, output, stations,
                   tOpen, tLine, tReadings, tParseFailed, tIOFailed>>

\* task returns: the deferred f.Close() and, in the goroutine, wg.Done()
TaskDone(t) ==
    /\ Alive
    /\ tPc[t] = "exit"
    /\ tPc' = [tPc EXCEPT ![t] = "done"]
    /\ wg' = wg - 1
    /\ UNCHANGED <<file, parallel, ioFailures, drVars, runPc, spawned, sent,
                   recvN, closed, readings, runErr, output, stations, crashed,
                   tOpen, tLine, tReadings, tParseFailed, tIOFailed>>

task(t) ==
    \/ TaskOpen(t)
    \/ TaskOpenFail(t)
    \/ TaskSendOpenErr(t)
    \/ TaskScanEnd(t)
    \/ TaskReadFail(t)
    \/ TaskPanic(t)
    \/ TaskRecord(t)
    \/ TaskParseFail(t)
    \/ TaskSendParseErr(t)
    \/ TaskSend(t)
    \/ TaskDone(t)

\* ---------------------------------------------------------------- run
\* a merge loop that notices only the error of a failed open
ResultIsError_OpenOnly(m) == m.Error = "open"

\* subreadings.Error != nil
ResultIsError(m) == m.Error # "nil"

\* lines 242-258: fold one task's mapping into the merged one
Merge(acc, sub) ==
    [k \in DOMAIN acc \cup DOMAIN sub |->
        IF k \in DOMAIN acc /\ k \in DOMAIN sub
        THEN [Sum |-> F32Add(acc[k].Sum, sub[k].Sum),
              Min |-> Min2(acc[k].Min, sub[k].Min),
              Max |-> Max2(acc[k].Max, sub[k].Max),
              Count |-> acc[k].Count + sub[k].Count]
        ELSE IF k \in DOMAIN acc THEN acc[k] ELSE sub[k]]

ByteCode(c) == CASE c = "LF" -> 10 [] c = "." -> 46 [] c = "1" -> 49
                 [] c = "3" -> 51 [] c = ";" -> 59 [] c = "a" -> 97
                 [] c = "b" -> 98 [] c = "x" -> 120 [] OTHER -> 0

\* s < t as Go compares strings: byte by byte, a proper prefix first
StringLess(s, t) ==
    \E k \in 1..(Len(t)) :
        /\ \A j \in 1..(k - 1) : j <= Len(s) /\ s[j] = t[j]
        /\ IF k <= Len(s) THEN ByteCode(s[k]) < ByteCode(t[k]) ELSE k = Len(s) + 1

RECURSIVE SortStrings(_)
\* lines 264-269: the keys of the mapping, sorted by sort.Strings
SortStrings(S) ==
    IF S = {} THEN <<>>
    ELSE LET least == CHOOSE s \in S : \A t \in S \ {s} : StringLess(s, t)
         IN  <<least>> \o SortStrings(S \ {least})

\* writeOutput: the entries between the braces, one per station, each the
\* station and the tenths printed for min, mean and max; v is dereferenced
\* before ok is looked at, so a missing station is a nil dereference
writeOutput(sts, m) ==
    IF \E k \in 1..Len(sts) : sts[k] \notin DOMAIN m
    THEN [panic |-> TRUE, output |-> <<>>, err |-> "nil"]
    ELSE [panic |-> FALSE,
          output |-> <<"{">> \o
                     [k \in 1..Len(sts) |->
                        <<sts[k],
                          Tenths(m[sts[k]].Min, F32Unit),
                          Tenths(F32Mean(m[sts[k]].Sum, m[sts[k]].Count),
                                 MeanScale * F32Unit),
                          Tenths(m[sts[k]].Max, F32Unit)>>] \o
                     <<"}">>,
          err |-> "nil"]

\* lines 216-219: determineRanges returned an error
RunRangesErr ==
    /\ runPc = "ranges"
    /\ drPc = "err"
    /\ runPc' = "returned"
    /\ runErr' = "ranges"
    /\ output' = <<>>
    /\ UNCHANGED <<file, parallel, ioFailures, drVars, spawned, sent, recvN,
                   closed, wg, readings, stations, crashed, taskVars>>

\* line 222: determineRanges returned ranges; the channel is made
RunMakeChan ==
    /\ runPc = "ranges"
    /\ drPc = "ok"
    /\ runPc' = "spawn"
    /\ UNCHANGED <<file, parallel, ioFailures, drVars, spawned, sent, recvN,
                   closed, wg, readings, runErr, output, stations, crashed, taskVars>>

\* lines 226-233: one iteration of the loop that starts the goroutines
RunSpawn ==
    /\ Alive
    /\ runPc = "spawn"
    /\ spawned < parallel
    /\ wg' = wg + 1
    /\ spawned' = spawned + 1
    /\ tPc' = [tPc EXCEPT ![spawned + 1] = "open"]
    /\ runPc' = IF spawned + 1 = parallel THEN "merge" ELSE "spawn"
    /\ UNCHANGED <<file, parallel, ioFailures, drVars, sent, recvN, closed,
                   readings, runErr, output, stations, crashed,
                   tOpen, tLine, tReadings, tParseFailed, tIOFailed>>

\* lines 237-259: one iteration of the loop that aggregates the results
RunReceive ==
    /\ Alive
    /\ runPc = "merge"
    /\ recvN < parallel
    /\ ChanLen > 0
    /\ recvN' = recvN + 1
    /\ IF ResultIsError(sent[recvN + 1])
       THEN /\ runErr' = "task"
            /\ output' = <<>>
            /\ runPc' = "returned"
            /\ readings' = readings
       ELSE /\ readings' = Merge(readings, sent[recvN + 1].Measurements)
            /\ runPc' = IF recvN + 1 = parallel THEN "wait" ELSE "merge"
            /\ UNCHANGED <<runErr, output>>
    /\ UNCHANGED <<file, parallel, ioFailures, drVars, spawned, sent, closed,
                   wg, stations, crashed, taskVars>>

\* the merge loop is followed by close without waiting for the tasks
RunWait_NoWait ==
    /\ Alive
    /\ runPc = "wait"
    /\ runPc' = "close"
    /\ UNCHANGED <<file, parallel, ioFailures, drVars, spawned, sent, recvN,
                   closed, wg, readings, runErr, output, stations, crashed, taskVars>>

\* line 261: wg.Wait() returns
RunWait ==
    /\ Alive
    /\ runPc = "wait"
    /\ wg = 0
    /\ runPc' = "close"
    /\ UNCHANGED <<file, parallel, ioFailures, drVars, spawned, sent, recvN,
                   closed, wg, readings, runErr, output, stations, crashed, taskVars>>

\* the channel is closed ahead of the loop that aggregates the results
RunClose_BeforeMerge ==
    /\ Alive
    /\ runPc = "merge"
    /\ ~closed
    /\ closed' = TRUE
    /\ UNCHANGED <<file, parallel, ioFailures, drVars, runPc, spawned, sent, recvN,
                   wg, readings, runErr, output, stations, crashed, taskVars>>

\* line 262: close(aggregatorChannel)
RunClose ==
    /\ Alive
    /\ runPc = "close"
    /\ closed' = TRUE
    /\ runPc' = "output"
    /\ UNCHANGED <<file, parallel, ioFailures, drVars, spawned, sent, recvN,
                   wg, readings, runErr, output, stations, crashed, taskVars>>

\* lines 264-276: the stations are sorted and the output is written
RunOutput ==
    /\ Alive
    /\ runPc = "output"
    /\ stations' = SortStrings(DOMAIN readings)
    /\ LET w == writeOutput(SortStrings(DOMAIN readings), readings)
       IN  /\ crashed' = w.panic
           /\ output' = w.output
           /\ runErr' = w.err
           /\ runPc' = IF w.panic THEN "output" ELSE "returned"
    /\ UNCHANGED <<file, parallel, ioFailures, drVars, spawned, sent, recvN,
                   closed, wg, readings, taskVars>>

run ==
    \/ RunRangesErr
    \/ RunMakeChan
    \/ RunSpawn
    \/ RunReceive
    \/ RunWait
    \/ RunClose
    \/ RunOutput

\* ------------------------------------------- SpecRanges: any file content
RangeBytes == {MeasurementDelimeter, "a"}

RECURSIVE SeqsUpTo(_, _)
SeqsUpTo(S, n) ==
    IF n = 0 THEN {<<>>}
    ELSE LET shorter == SeqsUpTo(S, n - 1)
         IN  shorter \cup {Append(s, x) : s \in shorter, x \in S}

InitRanges ==
    /\ file \in SeqsUpTo(RangeBytes, MaxLen)
    /\ parallel \in 1..MaxParallel
    /\ ioFailures = 0
    /\ DRInit
    /\ RunInit

NextRanges ==
    \/ DROpenFail
    \/ DRSingle
    \/ DRTooMany
    \/ DRFirst
    \/ DRAdjustFirst
    \/ DRCheck
    \/ DRMiddle
    \/ DRAdjustMiddle
    \/ DRLast

SpecRanges == InitRanges /\ [][NextRanges]_vars

\* ------------------------------------------- Spec: files made of records
RecordSet == {<<"a", ";", "3", ".", "1">>,
              <<"a", ";", "1", ".", "1">>,
              <<"b", ";", "1", ".", "1">>,
              <<"b", ";", "x">>,
              <<"x">>}

RECURSIVE Concat(_, _)
\* the records of rs, each followed by the record delimiter, the last one
\* only if terminated
Concat(rs, terminated) ==
    IF rs = <<>> THEN <<>>
    ELSE IF Len(rs) = 1 /\ ~terminated THEN rs[1]
    ELSE rs[1] \o <<MeasurementDelimeter>> \o Concat(Tail(rs), terminated)

Files == {Concat(rs, term) : rs \in SeqsUpTo(RecordSet, MaxRecords),
                             term \in BOOLEAN}

Init ==
    /\ file \in Files
    /\ parallel \in 1..MaxParallel
    /\ ioFailures = 0
    /\ DRInit
    /\ RunInit

Next ==
    \/ DROpenFail
    \/ DRSingle
    \/ DRTooMany
    \/ DRFirst
    \/ DRAdjustFirst
    \/ DRCheck
    \/ DRMiddle
    \/ DRAdjustMiddle
    \/ DRLast
    \/ RunRangesErr
    \/ RunMakeChan
    \/ RunSpawn
    \/ RunReceive
    \/ RunWait
    \/ RunClose
    \/ RunOutput
    \/ \E t \in Tasks : TaskOpen(t)
    \/ \E t \in Tasks : TaskOpenFail(t)
    \/ \E t \in Tasks : TaskSendOpenErr(t)
    \/ \E t \in Tasks : TaskScanEnd(t)
    \/ \E t \in Tasks : TaskReadFail(t)
    \/ \E t \in Tasks : TaskPanic(t)
    \/ \E t \in Tasks : TaskRecord(t)
    \/ \E t \in Tasks : TaskParseFail(t)
    \/ \E t \in Tasks : TaskSendParseErr(t)
    \/ \E t \in Tasks : TaskSend(t)
    \/ \E t \in Tasks : TaskDone(t)

Spec == Init /\ [][Next]_vars

\* ------------------------------- SpecOutput: files of well-formed records
RecordSetOutput == {<<"a", ";", "1", ".", "1">>,
                    <<"a", ";", "1", ".", "3">>,
                    <<"b", ";", "1", ".", "1">>}

FilesOutput == {Concat(rs, term) : rs \in SeqsUpTo(RecordSetOutput, MaxRecordsOutput),
                                   term \in BOOLEAN}

InitOutput ==
    /\ file \in FilesOutput
    /\ parallel \in 1..MaxParallel
    /\ ioFailures = 0
    /\ DRInit
    /\ RunInit

\* every record has a station delimiter and a value that parses, so the
\* steps of task that deal with a malformed record are never enabled
NextOutput ==
    \/ DROpenFail
    \/ DRSingle
    \/ DRTooMany
    \/ DRFirst
    \/ DRAdjustFirst
    \/ DRCheck
    \/ DRMiddle
    \/ DRAdjustMiddle
    \/ DRLast
    \/ RunRangesErr
    \/ RunMakeChan
    \/ RunSpawn
    \/ RunReceive
    \/ RunWait
    \/ RunClose
    \/ RunOutput
    \/ \E t \in Tasks : TaskOpen(t)
    \/ \E t \in Tasks : TaskOpenFail(t)
    \/ \E t \in Tasks : TaskSendOpenErr(t)
    \/ \E t \in Tasks : TaskScanEnd(t)
    \/ \E t \in Tasks : TaskReadFail(t)
    \/ \E t \in Tasks : TaskRecord(t)
    \/ \E t \in Tasks : TaskSend(t)
    \/ \E t \in Tasks : TaskDone(t)

SpecOutput == InitOutput /\ [][NextOutput]_vars

\* --------------------------- SpecWriteOutput: writeOutput called directly
StationKeys == {<<"a">>, <<"b">>}

\* the Measurements of one record 1.1 and of the two records 1.1 and 3.1
MeasurementsSet ==
    {[Sum |-> 9227469, Min |-> 9227469, Max |-> 9227469, Count |-> 1],
     [Sum |-> 35232152, Min |-> 9227469, Max |-> 26004684, Count |-> 2]}

ReadingsSet ==
    UNION {[D -> MeasurementsSet] : D \in SUBSET StationKeys}

InitWriteOutput ==
    /\ file = <<>>
    /\ parallel = 1
    /\ ioFailures = 0
    /\ DRInit
    /\ runPc = "output"
    /\ spawned = 0
    /\ sent = <<>>
    /\ recvN = 0
    /\ closed = FALSE
    /\ wg = 0
    /\ readings \in ReadingsSet
    /\ runErr = "nil"
    /\ output = <<>>
    /\ stations \in SeqsUpTo(StationKeys, MaxStations)
    /\ crashed = FALSE
    /\ tPc = [t \in Tasks |-> "idle"]
    /\ tOpen = [t \in Tasks |-> FALSE]
    /\ tLine = [t \in Tasks |-> 0]
    /\ tReadings = [t \in Tasks |-> EmptyMap]
    /\ tParseFailed = [t \in Tasks |-> FALSE]
    /\ tIOFailed = [t \in Tasks |-> "none"]

\* writeOutput(&stations, &readings) with the given list and mapping
WriteOutputCall ==
    /\ Alive
    /\ runPc = "output"
    /\ LET w == writeOutput(stations, readings)
       IN  /\ crashed' = w.panic
           /\ output' = w.output
           /\ runErr' = w.err
           /\ runPc' = IF w.panic THEN "output" ELSE "returned"
    /\ UNCHANGED <<file, parallel, ioFailures, drVars, spawned, sent, recvN,
                   closed, wg, readings, stations, taskVars>>

NextWriteOutput == WriteOutputCall

SpecWriteOutput == InitWriteOutput /\ [][NextWriteOutput]_vars

\* ---------------------------------------------------- claims on the ranges
Returned == drPc = "ok"

\* C2: whenever determineRanges returns without error for a file of length
\* L >= 1, it returns exactly N ranges, the first beginning at 0, each
\* beginning where the previous one ends, each with Begin <= End <= L, and
\* the last ending at L.
C2_RangesCoverFile ==
    (Returned /\ length >= 1) =>
        /\ Len(ranges) = parallel
        /\ ranges[1].Begin = 0
        /\ \A k \in 2..Len(ranges) : ranges[k].Begin = ranges[k - 1].End
        /\ \A k \in 1..Len(ranges) :
              ranges[k].Begin <= ranges[k].End /\ ranges[k].End <= length
        /\ ranges[Len(ranges)].End = length

\* C3: whenever determineRanges returns N >= 2 ranges without error, every
\* interior boundary lies in 1..L and the byte before it is the record
\* delimiter.
C3_InteriorBoundaryAfterDelimiter ==
    (Returned /\ parallel >= 2) =>
        \A k \in 1..(Len(ranges) - 1) :
            /\ 1 <= ranges[k].End
            /\ ranges[k].End <= length
            /\ file[ranges[k].End] = MeasurementDelimeter

\* ------------------------------------------------ claims on run and task
HasStation(rec) == IndexOf(rec, StationDelimeter) # 0
ValueParses(rec) == HasStation(rec) /\ ~ParseFloat(MeasurementStr(rec)).err
BadValue(rec) == HasStation(rec) /\ ParseFloat(MeasurementStr(rec)).err

\* every record of the file is key;value with a numeric value
WellFormed == \A k \in 1..Len(ScanLines(file)) : ValueParses(ScanLines(file)[k])

RECURSIVE AccumulateAll(_, _)
AccumulateAll(recs, m) ==
    IF recs = <<>> THEN m
    ELSE AccumulateAll(Tail(recs),
                       Accumulate(m, Station(recs[1]),
                                  ParseFloat(MeasurementStr(recs[1])).val))

\* what run(file, 1) merges: the one task scans the whole file in order and
\* its mapping is copied into the empty merged mapping
SingleWorkerReadings == Merge(EmptyMap, AccumulateAll(ScanLines(file), EmptyMap))

RunSucceeded == runPc = "returned" /\ runErr = "nil"

\* C1: for a well-formed file, a run with any worker count that succeeds
\* (no I/O failure) ends with the merged mapping of the run with one worker:
\* same keys and, per key, same min, max, sum and count.
C1_SameAsSingleWorker ==
    (RunSucceeded /\ WellFormed /\ ioFailures = 0) =>
        readings = SingleWorkerReadings

\* the results sent by task t
SentBy(t) == {k \in 1..Len(sent) : sent[k].task = t}

\* C4: a task sends exactly one AggregationResult over its whole execution:
\* never more than one, and one once it has finished.
C4_ExactlyOneResultPerTask ==
    \A t \in Tasks :
        /\ Cardinality(SentBy(t)) <= 1
        /\ tPc[t] = "done" => Cardinality(SentBy(t)) = 1

\* C5: if a task has hit a value that fails to parse, or the file holds a
\* record with such a value and no I/O failure kept it from being read, then
\* whenever run has returned it has returned an error and the empty string.
C5_ParseFailureFailsRun ==
    (/\ runPc = "returned"
     /\ \/ \E t \in Tasks : tParseFailed[t]
        \/ /\ ioFailures = 0
           /\ \E k \in 1..Len(ScanLines(file)) : BadValue(ScanLines(file)[k]))
    => (runErr # "nil" /\ output = <<>>)

\* run has returned a task's error although a task had hit a parse failure
\* and other results had already been merged
C5_Witness ==
    /\ runPc = "returned"
    /\ runErr = "task"
    /\ output = <<>>
    /\ recvN >= 2
    /\ \E t \in Tasks : tParseFailed[t]

\* a task is at a send that cannot proceed
Blocked(t) ==
    /\ tPc[t] \in {"sendOpenErr", "sendParseErr", "send"}
    /\ ~CanSend

\* C6: after run has returned a task's error, the remaining results have
\* been received and no task is blocked on the result channel (nothing
\* receives after run has returned, so a task blocked then stays blocked).
C6_ErrorStillDrains ==
    (runPc = "returned" /\ runErr = "task") =>
        \A t \in Tasks : ~Blocked(t)

\* C7: once a task has hit a value that fails to parse, its local readings
\* mapping never changes again.
C7_NoChangeAfterParseFailure ==
    [][\A t \in Tasks : tParseFailed[t] => tReadings'[t] = tReadings[t]]_vars

\* C8: a result without an error (a mapping delivered as a success) never
\* comes from a task that could not open the file or whose scan was ended
\* by a failed read.
C8_IOFailureDeliversError ==
    \A k \in 1..Len(sent) :
        tIOFailed[sent[k].task] # "none" => sent[k].Error # "nil"

RECURSIVE MergeTasks(_, _)
\* the tasks' mappings merged in the order of the tasks
MergeTasks(t, acc) ==
    IF t > parallel THEN acc ELSE MergeTasks(t + 1, Merge(acc, tReadings[t]))

\* C9: once all results are merged, the merged mapping is the same whatever
\* the order of arrival: it is the one obtained by merging in task order.
C9_MergeOrderIndependent ==
    (runPc \in {"wait", "close", "output"} \/ RunSucceeded) =>
        readings = MergeTasks(1, EmptyMap)

EntryInBounds(v) ==
    /\ v.Count >= 1
    /\ v.Min <= v.Max
    /\ MeanScale * v.Min <= F32Mean(v.Sum, v.Count)
    /\ F32Mean(v.Sum, v.Count) <= MeanScale * v.Max

\* C10: every entry of every task-local mapping and of the merged mapping
\* has count >= 1 and min <= max, and its mean sum / count lies between min
\* and max.
C10_MinMeanMax ==
    /\ \A t \in Tasks : \A k \in DOMAIN tReadings[t] : EntryInBounds(tReadings[t][k])
    /\ \A k \in DOMAIN readings : EntryInBounds(readings[k])

\* ------------------------------------------------- claims on the output
\* C11: on every successful run the station list handed to writeOutput
\* holds each key of the merged mapping exactly once and no other key, in
\* strictly ascending byte order, and (no I/O failure having cut a scan
\* short) the output is the same whatever the order of arrival: it is the
\* output written for the mappings merged in task order.
C11_SortedStationsFixOutput ==
    RunSucceeded =>
        /\ {stations[k] : k \in 1..Len(stations)} = DOMAIN readings
        /\ Len(stations) = Cardinality(DOMAIN readings)
        /\ \A k \in 1..(Len(stations) - 1) : StringLess(stations[k], stations[k + 1])
        /\ ioFailures = 0 =>
              output = writeOutput(SortStrings(DOMAIN readings),
                                   MergeTasks(1, EmptyMap)).output

\* C12: when parallel >= 2 and the integer quotient of the file length by
\* parallel is 0, determineRanges returns an error and an empty range list,
\* and run returns that error with no task spawned, no result sent and no
\* output.
C12_TooManyRangesIsAnError ==
    (parallel >= 2 /\ length \div parallel = 0) =>
        /\ drPc \in {"open", "err"}
        /\ ranges = <<>>
        /\ runPc \in {"ranges", "returned"}
        /\ runPc = "returned" => runErr = "ranges"
        /\ spawned = 0
        /\ sent = <<>>
        /\ \A t \in Tasks : tPc[t] = "idle"
        /\ output = <<>>

C12_Witness ==
    /\ parallel >= 2
    /\ length > 0
    /\ length \div parallel = 0
    /\ ioFailures = 0
    /\ drPc = "err"
    /\ runPc = "returned"
    /\ runErr = "ranges"

\* a record delimiter lies at or after the file position
DelimiterAhead ==
    \E k \in (fpos + 1)..length : file[k] = MeasurementDelimeter

\* C13: when the backward scan has moved a boundary below offset 0,
\* determineRanges returns an error and no range list. The scan loop is left
\* only on reading a delimiter, so a scan whose boundary is below 0 must have
\* a delimiter still to read; it then ends with End < 0 and the error.
C13_UnderflowReturnsError ==
    /\ (drPc = "first" /\ ranges[1].End < 0) => DelimiterAhead
    /\ (drPc = "adjust" /\ middle.End < 0) => DelimiterAhead
    /\ (drPc = "ok" /\ parallel # 1) => \A k \in 1..Len(ranges) : ranges[k].End >= 0

\* C14: writeOutput, called with a stations list that holds a key absent
\* from the readings mapping, does not panic and returns the 'Missing entry'
\* error with an empty output string.
C14_MissingEntryIsAnError ==
    (\E k \in 1..Len(stations) : stations[k] \notin DOMAIN readings) =>
        /\ ~crashed
        /\ runPc = "returned" => (runErr = "missing" /\ output = <<>>)

\* the records of the file with station key
RecordsOf(key) ==
    {k \in 1..Len(ScanLines(file)) :
        HasStation(ScanLines(file)[k]) /\ Station(ScanLines(file)[k]) = key}

RECURSIVE ExactSum(_)
\* the arithmetic sum of the values of a set of records of the file
ExactSum(S) ==
    IF S = {} THEN 0
    ELSE LET k == CHOOSE j \in S : TRUE
         IN  ParseFloat(MeasurementStr(ScanLines(file)[k])).val + ExactSum(S \ {k})

\* the stations of the records of the file
FileStations ==
    {Station(ScanLines(file)[k]) :
        k \in {j \in 1..Len(ScanLines(file)) : HasStation(ScanLines(file)[j])}}

\* C15: when run succeeds (no I/O failure having cut a scan short) every
\* record of the file has been scanned by exactly one task: the merged
\* mapping has the stations of the file and, for every station, the count is
\* the number of its records and the sum is the sum of their values.
C15_EachRecordCountedOnce ==
    (RunSucceeded /\ ioFailures = 0) =>
        /\ DOMAIN readings = FileStations
        /\ \A key \in DOMAIN readings :
              /\ readings[key].Count = Cardinality(RecordsOf(key))
              /\ readings[key].Sum = ExactSum(RecordsOf(key))

RECURSIVE MergeReceived(_)
\* the first n results sent, merged in the order of arrival
MergeReceived(n) ==
    IF n = 0 THEN EmptyMap ELSE Merge(MergeReceived(n - 1), sent[n].Measurements)

\* C16: on a successful run the merge loop has received exactly N results,
\* one from each of the N spawned tasks and these are all that were sent,
\* and when the keys are sorted and the output is formatted all N results
\* have been merged and all N tasks have finished.
C16_AllMergedBeforeOutput ==
    (runPc = "output" \/ RunSucceeded) =>
        /\ spawned = parallel
        /\ recvN = parallel
        /\ Len(sent) = parallel
        /\ \A t \in Tasks : Cardinality(SentBy(t)) = 1
        /\ \A k \in 1..Len(sent) : ~ResultIsError(sent[k])
        /\ readings = MergeReceived(parallel)
        /\ \A t \in Tasks : tPc[t] = "done"
        /\ wg = 0

C16_Witness ==
    /\ RunSucceeded
    /\ parallel = MaxParallel
    /\ sent[1].task # 1
    /\ Cardinality(DOMAIN readings) = 2

\* C17: once the first range has passed the End < 0 test, every middle
\* range, while its End is adjusted and once it is appended, has
\* Begin >= 0 and its End never goes below its Begin: the scan stops at the
\* latest on the delimiter that precedes Begin, which leaves End = Begin.
C17_MiddleRangesNeedNoCheck ==
    /\ drPc = "adjust" => (middle.Begin >= 1 /\ middle.End >= middle.Begin - 1)
    /\ drPc \in {"middle", "adjust", "ok"} =>
          \A k \in 2..Min2(Len(ranges), parallel - 1) :
              /\ ranges[k].Begin >= 0
              /\ ranges[k].End >= ranges[k].Begin

\* a middle range whose scan went all the way back to its own Begin
C17_Witness ==
    /\ drPc = "ok"
    /\ parallel >= 3
    /\ ranges[2].End = ranges[2].Begin

\* the scan loop, about to seek to offset end, will read a delimiter: b
\* still holds one and the read is at end-of-file, or one lies in the bytes
\* the backward reads reach, or one lies in the bytes the reads made after
\* a failed seek reach
ScanEnds(end) ==
    \/ end >= length /\ b = MeasurementDelimeter
    \/ \E k \in 1..Min2(end + 1, length) : file[k] = MeasurementDelimeter
    \/ \E k \in (IF end >= 0 THEN 2 ELSE fpos + 1)..length :
          file[k] = MeasurementDelimeter

\* C18: determineRanges terminates for every file and every N >= 1. Each
\* scan loop is left only on reading a delimiter, so whenever a scan is
\* running there must be a delimiter its reads will reach.
C18_ScansTerminate ==
    /\ drPc = "first" => ScanEnds(ranges[1].End)
    /\ drPc = "adjust" => ScanEnds(middle.End)

\* C19: the channel is closed only after every task has completed its last
\* send (every task has sent its result and returned, and every result sent
\* has been received), so no task sends on a closed channel.
C19_CloseAfterLastSend ==
    closed =>
        /\ \A t \in Tasks : tPc[t] = "done" /\ Cardinality(SentBy(t)) >= 1
        /\ Len(sent) = recvN
        /\ ~crashed

C19_Witness ==
    /\ closed
    /\ parallel = MaxParallel
    /\ ioFailures > 0

\* run can take a step: it is not waiting for a result that has not been
\* sent, nor for a task that has not returned
RunCanStep ==
    Alive /\ \/ runPc \in {"spawn", "close", "output"}
             \/ runPc = "ranges" /\ drPc \in {"ok", "err"}
             \/ runPc = "merge" /\ ChanLen > 0
             \/ runPc = "wait" /\ wg = 0

\* task t can take a step: it is not waiting for room in the channel
TaskCanStep(t) ==
    Alive /\ \/ tPc[t] \in {"open", "scan", "exit"}
             \/ tPc[t] \in {"sendOpenErr", "sendParseErr", "send"} /\ CanSend

\* C20: once determineRanges has returned ranges, run eventually returns.
\* Every step moves run or one task forward and none can be repeated for
\* ever, so run returns in every fair execution exactly if no state before
\* its return is left without a possible step of run or of a task.
C20_RunEventuallyReturns ==
    (drPc = "ok" /\ runPc # "returned") =>
        (RunCanStep \/ \E t \in Tasks : TaskCanStep(t))
====
